---------------------------- MODULE Spec2Model ----------------------------
(***************************************************************************)
(* A model of Webathon/app.py (EmpowerHer 2.0): the SQLite-backed incident *)
(* store (tables reports, shares, chats), the Flask handlers that write    *)
(* and read it, the mock score engine, the mock route generator and the    *)
(* keyword chat assistant.                                                 *)
(*                                                                         *)
(* Numbers.  Coordinates are fixed point, in units of 1/10000 degree       *)
(* (28.4595 is 284595); every coordinate constant of the source is a       *)
(* multiple of that unit.  A safety score is an exact rational, kept as a  *)
(* numerator over ScoreDen * SampleDen.                                    *)
(*                                                                         *)
(* Values.  A Python / JSON / SQLite value is a record [t, n, s]: its type *)
(* tag, its number and its text.                                           *)
(*                                                                         *)
(* Time.  The server clock now counts ticks; created_at is the clock value *)
(* that datetime.datetime.now() returned (isoformat() keeps its order).    *)
(* save_report, save_share and save_chat read the clock while the         *)
(* arguments of cur.execute are evaluated, before the INSERT runs: the     *)
(* read belongs to the first step of a handler, the INSERT to its second.  *)
(***************************************************************************)
EXTENDS Integers, Sequences, FiniteSets, TLC

VARIABLES
    reports,          \* table reports: its rows, in insertion order
    shares,           \* table shares
    chats,            \* table chats
    sqlite_sequence,  \* SQLite's AUTOINCREMENT bookkeeping: table -> largest rowid ever used
    call,             \* per server thread: the handler it is in, with its evaluated arguments
    resp,             \* the response of the request that completed last
    req,              \* the request of a single-request run (pure handlers), else NoReq
    hour,             \* datetime.datetime.now().hour
    now,              \* datetime.datetime.now(): the server clock, in ticks
    issued            \* history: table -> the ids its INSERTs have been given so far

vars == <<reports, shares, chats, sqlite_sequence, call, resp, req, hour, now, issued>>

storeVars == <<reports, shares, chats, sqlite_sequence, issued>>

----------------------------------------------------------------------------
(* Bounds of the model *)

\* server threads handling requests at the same time (app.run: threaded server)
NumThreads == 2
\* ids handed out per table in one run of Spec
MaxIds == 3
\* largest LIMIT argument tried on get_reports / get_chats
MaxLimit == 4

Threads == 1..NumThreads

----------------------------------------------------------------------------
(* Python / JSON / SQLite values *)

PyNone == [t |-> "none", n |-> 0, s |-> ""]

PyNaN == [t |-> "nan", n |-> 0, s |-> ""]

\* a key that the JSON object does not have
Absent == [t |-> "absent", n |-> 0, s |-> ""]

PyFloat(n) == [t |-> "float", n |-> n, s |-> ""]

PyInt(n) == [t |-> "int", n |-> n, s |-> ""]

PyStr(s) == [t |-> "str", n |-> 0, s |-> s]

\* the fallback coordinate 28.4595, 77.0266
DefaultLat == 284595

DefaultLng == 770266

\* dict.get(key, default): the default only when the key is absent
DictGet(v, default) == IF v.t = "absent" THEN default ELSE v

\* float() of the text literals that occur in the requests of the model
FloatLiterals ==
    [s \in {"28.46", "77.03", "nan"} |->
        CASE s = "28.46" -> PyFloat(284600)
          [] s = "77.03" -> PyFloat(770300)
          [] s = "nan" -> PyNaN]

\* whether float(v) returns (TRUE) or raises TypeError / ValueError (FALSE)
FloatOk(v) ==
    CASE v.t = "float" -> TRUE
      [] v.t = "nan" -> TRUE
      [] v.t = "int" -> TRUE
      [] v.t = "str" -> v.s \in DOMAIN FloatLiterals
      [] OTHER -> FALSE

\* float(v), where it returns (an integer number of degrees is 10000 units each)
float(v) ==
    CASE v.t = "int" -> PyFloat(v.n * 10000)
      [] v.t = "str" -> FloatLiterals[v.s]
      [] OTHER -> v

\* str(v) as an f-string formats it, for text, integers, None and NaN
str(v) ==
    CASE v.t = "str" -> v.s
      [] v.t = "int" -> ToString(v.n)
      [] v.t = "none" -> "None"
      [] OTHER -> "nan"

\* what a REAL column keeps of a bound Python float: SQLite stores NaN as NULL
RealColumn(v) == IF v.t = "nan" THEN PyNone ELSE v

\* what a TEXT column keeps of a bound value: a number becomes its text
TextColumn(v) == IF v.t = "int" THEN PyStr(ToString(v.n)) ELSE v

----------------------------------------------------------------------------
(* The store: init_db and the persistence helpers *)

Tables == {"reports", "shares", "chats"}

Max(a, b) == IF a >= b THEN a ELSE b

Min(a, b) == IF a <= b THEN a ELSE b

MaxId(rows) == IF rows = <<>> THEN 0 ELSE
    LET ids == {rows[i].id : i \in DOMAIN rows}
    IN CHOOSE m \in ids : \A k \in ids : k <= m

\* a deliberately broken rowid rule: a plain INTEGER PRIMARY KEY (largest rowid in the table + 1)
NextRowid_NoAutoincrement(table, rows) == MaxId(rows) + 1

\* id INTEGER PRIMARY KEY AUTOINCREMENT: one more than the largest rowid the
\* table has ever held, which sqlite_sequence remembers across DELETE
NextRowid(table, rows) == Max(sqlite_sequence[table], MaxId(rows)) + 1

\* row put into rows, which are ordered by id, largest first
InsertDesc(row, sorted) ==
    LET p == Cardinality({i \in DOMAIN sorted : sorted[i].id > row.id})
    IN SubSeq(sorted, 1, p) \o <<row>> \o SubSeq(sorted, p + 1, Len(sorted))

\* rows ordered by id, largest first (ORDER BY id DESC)
RECURSIVE OrderByIdDesc(_)
OrderByIdDesc(rows) ==
    IF rows = <<>> THEN <<>>
    ELSE InsertDesc(Head(rows), OrderByIdDesc(Tail(rows)))

\* a deliberately broken LIMIT: one row short
Limit_OneShort(rows, n) == IF n < 0 THEN rows ELSE SubSeq(rows, 1, Min(n - 1, Len(rows)))

\* LIMIT n: the first n rows; a negative n is no limit
Limit(rows, n) == IF n < 0 THEN rows ELSE SubSeq(rows, 1, Min(n, Len(rows)))

\* a deliberately broken read: oldest first
get_reports_asc(limit) ==
    LET desc == OrderByIdDesc(reports)
    IN Limit([i \in DOMAIN desc |-> desc[Len(desc) + 1 - i]], limit)

get_reports(limit) == Limit(OrderByIdDesc(reports), limit)

get_chats(limit) == Limit(OrderByIdDesc(chats), limit)

Idle == [pc |-> "idle"]

NoResp == [op |-> "none", status |-> 0, body |-> <<>>]

NoReq == [op |-> "none"]

Response(op, status, body) == [op |-> op, status |-> status, body |-> body]

init_db ==
    /\ reports = <<>>
    /\ shares = <<>>
    /\ chats = <<>>
    /\ sqlite_sequence = [tb \in Tables |-> 0]
    /\ issued = [tb \in Tables |-> {}]

\* a deliberately broken save_report: lat and lng bound in the wrong order
save_report_swapped(t) ==
    /\ call[t].pc = "save_report"
    /\ LET id == NextRowid("reports", reports)
       IN /\ reports' = Append(reports,
                 [id |-> id,
                  lat |-> RealColumn(call[t].lng),
                  lng |-> RealColumn(call[t].lat),
                  severity |-> TextColumn(call[t].severity),
                  note |-> TextColumn(call[t].note),
                  created_at |-> call[t].created_at])
          /\ sqlite_sequence' = [sqlite_sequence EXCEPT !["reports"] = id]
          /\ issued' = [issued EXCEPT !["reports"] = @ \cup {id}]
    /\ resp' = Response(call[t].op, 204, <<>>)
    /\ call' = [call EXCEPT ![t] = Idle]
    /\ UNCHANGED <<shares, chats, req, hour, now>>

\* save_report's INSERT and commit, by the thread that is in save_report
save_report(t) ==
    /\ call[t].pc = "save_report"
    /\ LET id == NextRowid("reports", reports)
       IN /\ reports' = Append(reports,
                 [id |-> id,
                  lat |-> RealColumn(call[t].lat),
                  lng |-> RealColumn(call[t].lng),
                  severity |-> TextColumn(call[t].severity),
                  note |-> TextColumn(call[t].note),
                  created_at |-> call[t].created_at])
          /\ sqlite_sequence' = [sqlite_sequence EXCEPT !["reports"] = id]
          /\ issued' = [issued EXCEPT !["reports"] = @ \cup {id}]
    /\ resp' = Response(call[t].op, 204, <<>>)
    /\ call' = [call EXCEPT ![t] = Idle]
    /\ UNCHANGED <<shares, chats, req, hour, now>>

\* save_share's INSERT and commit
save_share(t) ==
    /\ call[t].pc = "save_share"
    /\ LET id == NextRowid("shares", shares)
       IN /\ shares' = Append(shares,
                 [id |-> id,
                  lat |-> RealColumn(call[t].lat),
                  lng |-> RealColumn(call[t].lng),
                  created_at |-> call[t].created_at])
          /\ sqlite_sequence' = [sqlite_sequence EXCEPT !["shares"] = id]
          /\ issued' = [issued EXCEPT !["shares"] = @ \cup {id}]
    /\ resp' = Response(call[t].op, 204, <<>>)
    /\ call' = [call EXCEPT ![t] = Idle]
    /\ UNCHANGED <<reports, chats, req, hour, now>>

----------------------------------------------------------------------------
(* The write handlers *)

\* POST /api/report up to its call of save_report and the clock read of
\* save_report; data is the JSON object
api_report(t, data) ==
    /\ call[t].pc = "idle"
    /\ LET lat == DictGet(data.lat, PyFloat(DefaultLat))
           lng == DictGet(data.lng, PyFloat(DefaultLng))
           severity == DictGet(data.severity, PyStr("Medium"))
           note == DictGet(data.note, PyStr(""))
       IN IF FloatOk(lat) /\ FloatOk(lng)
          THEN /\ call' = [call EXCEPT ![t] =
                      [pc |-> "save_report", op |-> "api_report",
                       lat |-> float(lat), lng |-> float(lng),
                       severity |-> severity, note |-> note,
                       created_at |-> now]]
               /\ UNCHANGED resp
          ELSE \* float() raises: the request ends with a 500 and nothing is saved
               /\ resp' = Response("api_report", 500, <<>>)
               /\ UNCHANGED call
    /\ UNCHANGED <<storeVars, req, hour, now>>

\* POST /api/sos up to its call of save_report
api_sos(t, data) ==
    /\ call[t].pc = "idle"
    /\ LET lat == DictGet(data.lat, PyFloat(DefaultLat))
           lng == DictGet(data.lng, PyFloat(DefaultLng))
       IN IF FloatOk(lat) /\ FloatOk(lng)
          THEN /\ call' = [call EXCEPT ![t] =
                      [pc |-> "save_report", op |-> "api_sos",
                       lat |-> float(lat), lng |-> float(lng),
                       severity |-> PyStr("High"),
                       note |-> PyStr("SOS triggered: "
                                      \o str(DictGet(data.type, PyStr("unknown")))),
                       created_at |-> now]]
               /\ UNCHANGED resp
          ELSE /\ resp' = Response("api_sos", 500, <<>>)
               /\ UNCHANGED call
    /\ UNCHANGED <<storeVars, req, hour, now>>

\* POST /api/share up to its call of save_share
api_share(t, data) ==
    /\ call[t].pc = "idle"
    /\ LET lat == DictGet(data.lat, PyFloat(DefaultLat))
           lng == DictGet(data.lng, PyFloat(DefaultLng))
       IN IF FloatOk(lat) /\ FloatOk(lng)
          THEN /\ call' = [call EXCEPT ![t] =
                      [pc |-> "save_share", op |-> "api_share",
                       lat |-> float(lat), lng |-> float(lng),
                       created_at |-> now]]
               /\ UNCHANGED resp
          ELSE /\ resp' = Response("api_share", 500, <<>>)
               /\ UNCHANGED call
    /\ UNCHANGED <<storeVars, req, hour, now>>

\* a deliberately broken clear: every table deleted
api_clear_reports_all(t) ==
    /\ call[t].pc = "idle"
    /\ reports' = <<>>
    /\ shares' = <<>>
    /\ chats' = <<>>
    /\ resp' = Response("api_clear_reports", 204, <<>>)
    /\ UNCHANGED <<sqlite_sequence, issued, call, req, hour, now>>

\* POST /api/clear_reports: DELETE FROM reports, commit
api_clear_reports(t) ==
    /\ call[t].pc = "idle"
    /\ reports' = <<>>
    /\ resp' = Response("api_clear_reports", 204, <<>>)
    /\ UNCHANGED <<shares, chats, sqlite_sequence, issued, call, req, hour, now>>

----------------------------------------------------------------------------
(* Text: a Python string whose characters matter is a sequence of one-character strings *)

UpperCase == <<"A", "B", "C", "D", "E", "F", "G", "H", "I", "J", "K", "L", "M",
               "N", "O", "P", "Q", "R", "S", "T", "U", "V", "W", "X", "Y", "Z">>

LowerCase == <<"a", "b", "c", "d", "e", "f", "g", "h", "i", "j", "k", "l", "m",
               "n", "o", "p", "q", "r", "s", "t", "u", "v", "w", "x", "y", "z">>

Whitespace == {" ", "\t", "\n", "\r"}

\* str.lower()
lower(q) ==
    [i \in DOMAIN q |->
        IF \E k \in DOMAIN UpperCase : UpperCase[k] = q[i]
        THEN LowerCase[CHOOSE k \in DOMAIN UpperCase : UpperCase[k] = q[i]]
        ELSE q[i]]

\* str.strip(): without its leading and trailing whitespace
strip(q) ==
    LET keep == {i \in DOMAIN q : q[i] \notin Whitespace}
    IN IF keep = {} THEN <<>>
       ELSE LET first == CHOOSE i \in keep : \A k \in keep : i <= k
                last == CHOOSE i \in keep : \A k \in keep : k <= i
            IN SubSeq(q, first, last)

\* sub in q
Contains(sub, q) ==
    \E i \in 0..(Len(q) - Len(sub)) : SubSeq(q, i + 1, i + Len(sub)) = sub

\* JSON values of the key q of a chat request
JAbsent == [t |-> "absent", chars |-> <<>>]

JNull == [t |-> "none", chars |-> <<>>]

JText(chars) == [t |-> "str", chars |-> chars]

kw_safe == <<"s", "a", "f", "e">>

kw_danger == <<"d", "a", "n", "g", "e", "r">>

kw_route == <<"r", "o", "u", "t", "e">>

kw_navigate == <<"n", "a", "v", "i", "g", "a", "t", "e">>

kw_share == <<"s", "h", "a", "r", "e">>

kw_contacts == <<"c", "o", "n", "t", "a", "c", "t", "s">>

kw_help == <<"h", "e", "l", "p">>

kw_panic == <<"p", "a", "n", "i", "c">>

AnswerSafety == "Mock assistant: I see mixed risk around this area. Click the map to get an exact safety score and suggested safer route."

AnswerRoute == "Mock assistant: Use Safer Route mode to prioritise well-lit and populated paths."

AnswerShare == "Mock assistant: I can share your live location with pre-selected contacts. Start Location Share to demo."

AnswerSos == "Mock assistant: Press SOS now. I will notify your emergency contacts and start location share (demo)."

AnswerFallback == "Mock assistant: I can show safety heatmaps, suggest safer routes, and trigger SOS. Try: \"Is this area safe?\""

\* a deliberately broken rule order: the SOS rule tried before the safety rule
chat_answer_sos_first(q_low) ==
    IF Contains(kw_help, q_low) \/ Contains(kw_panic, q_low) THEN AnswerSos
    ELSE IF Contains(kw_safe, q_low) \/ Contains(kw_danger, q_low) THEN AnswerSafety
    ELSE IF Contains(kw_route, q_low) \/ Contains(kw_navigate, q_low) THEN AnswerRoute
    ELSE IF Contains(kw_share, q_low) \/ Contains(kw_contacts, q_low) THEN AnswerShare
    ELSE AnswerFallback

\* the if / elif chain of api_chat
chat_answer(q_low) ==
    IF Contains(kw_safe, q_low) \/ Contains(kw_danger, q_low) THEN AnswerSafety
    ELSE IF Contains(kw_route, q_low) \/ Contains(kw_navigate, q_low) THEN AnswerRoute
    ELSE IF Contains(kw_share, q_low) \/ Contains(kw_contacts, q_low) THEN AnswerShare
    ELSE IF Contains(kw_help, q_low) \/ Contains(kw_panic, q_low) THEN AnswerSos
    ELSE AnswerFallback

\* POST /api/chat up to its call of save_chat; q is the JSON value of the key q
api_chat(t, jq) ==
    /\ call[t].pc = "idle"
    /\ LET q == strip(IF jq.t = "str" THEN jq.chars ELSE <<>>)
           q_low == lower(q)
       IN call' = [call EXCEPT ![t] =
              [pc |-> "save_chat", op |-> "api_chat", q |-> q, a |-> chat_answer(q_low),
               created_at |-> now]]
    /\ UNCHANGED <<storeVars, resp, req, hour, now>>

\* save_chat's INSERT and commit, then api_chat's response
save_chat(t) ==
    /\ call[t].pc = "save_chat"
    /\ LET id == NextRowid("chats", chats)
       IN /\ chats' = Append(chats, [id |-> id, q |-> call[t].q, a |-> call[t].a,
                                     created_at |-> call[t].created_at])
          /\ sqlite_sequence' = [sqlite_sequence EXCEPT !["chats"] = id]
          /\ issued' = [issued EXCEPT !["chats"] = @ \cup {id}]
    /\ resp' = Response(call[t].op, 200, [a |-> call[t].a])
    /\ call' = [call EXCEPT ![t] = Idle]
    /\ UNCHANGED <<reports, shares, req, hour, now>>

----------------------------------------------------------------------------
(* The read handlers.  The timeline of /api/reports is drawn at random on   *)
(* every call and reads nothing of the store; the response modelled here is *)
(* its reports list.                                                        *)

\* get_reports(50) of api_reports
FeedLimit == 50

\* get_reports(500) and get_chats(500) of the exports
ExportLimit == 500

api_reports(t) ==
    /\ call[t].pc = "idle"
    /\ resp' = Response("api_reports", 200, get_reports(FeedLimit))
    /\ UNCHANGED <<storeVars, call, req, hour, now>>

api_export_reports(t) ==
    /\ call[t].pc = "idle"
    /\ resp' = Response("api_export_reports", 200, get_reports(ExportLimit))
    /\ UNCHANGED <<storeVars, call, req, hour, now>>

api_export_logs(t) ==
    /\ call[t].pc = "idle"
    /\ resp' = Response("api_export_logs", 200,
                        [chats |-> get_chats(ExportLimit), reports |-> get_reports(ExportLimit)])
    /\ UNCHANGED <<storeVars, call, req, hour, now>>

----------------------------------------------------------------------------
(* The store under concurrent requests *)

Body(lat, lng, severity, note, type) ==
    [lat |-> lat, lng |-> lng, severity |-> severity, note |-> note, type |-> type]

EmptyBody == Body(Absent, Absent, Absent, Absent, Absent)

SpecReportBodies ==
    {Body(PyFloat(284600), PyFloat(770300), PyStr("Low"), PyStr("dark street"), Absent)}

SpecShareBodies == {Body(PyFloat(284600), PyFloat(770300), Absent, Absent, Absent)}

SpecChatTexts == {JText(<<"S", "a", "f", "e", "?">>)}

Init ==
    /\ init_db
    /\ call = [t \in Threads |-> Idle]
    /\ resp = NoResp
    /\ req = NoReq
    /\ hour = 0
    /\ now = 0

Next ==
    \E t \in Threads :
        \/ \E data \in SpecReportBodies : api_report(t, data)
        \/ \E data \in SpecShareBodies : api_share(t, data)
        \/ \E jq \in SpecChatTexts : api_chat(t, jq)
        \/ sqlite_sequence["reports"] < MaxIds /\ save_report(t)
        \/ sqlite_sequence["shares"] < MaxIds /\ save_share(t)
        \/ sqlite_sequence["chats"] < MaxIds /\ save_chat(t)
        \/ api_clear_reports(t)
        \/ api_reports(t)
        \/ api_export_logs(t)

Spec == Init /\ [][Next]_vars

----------------------------------------------------------------------------
(* Claims about the store, checked under Spec *)

\* the rows a step appended to a table get ids above every id in seen
InsertedIdsFresh(old, new, seen) ==
    \A i \in (Len(old) + 1)..Len(new) : \A k \in seen : new[i].id > k

UniqueIds(rows) ==
    \A i, j \in DOMAIN rows : i # j => rows[i].id # rows[j].id

\* C1: in each of the tables reports, shares and chats, over any interleaving
\* of inserts (also concurrent ones) and clear_reports, every inserted row
\* gets an id strictly greater than every id assigned in that table before,
\* so no two rows share an id and no id comes back after clear_reports.
C1_IdsStrictlyIncrease ==
    [][/\ InsertedIdsFresh(reports, reports', issued["reports"])
       /\ InsertedIdsFresh(shares, shares', issued["shares"])
       /\ InsertedIdsFresh(chats, chats', issued["chats"])
       /\ UniqueIds(reports') /\ UniqueIds(shares') /\ UniqueIds(chats')]_vars

\* C1 witness: a report inserted after clear_reports, with the id 3 after the
\* ids 1 and 2 that the cleared rows had
C1_Witness ==
    /\ issued["reports"] = {1, 2, 3}
    /\ Len(reports) = 1
    /\ reports[1].id = 3
    /\ Len(shares) = 2
    /\ Len(chats) = 2

\* C2: clear_reports leaves the reports table empty and the shares and chats
\* tables exactly as they were.
C2_ClearReportsFrame ==
    [][\A t \in Threads :
          api_clear_reports(t) =>
              /\ reports' = <<>>
              /\ shares' = shares
              /\ chats' = chats]_vars

\* C2 witness: clear_reports has just emptied a reports table that had held
\* rows, with rows in shares and in chats
C2_Witness ==
    /\ resp.op = "api_clear_reports"
    /\ reports = <<>>
    /\ sqlite_sequence["reports"] >= 2
    /\ Len(shares) >= 1
    /\ Len(chats) >= 1

\* r is the n rows of table with the largest ids, largest id first
IsMostRecent(r, table, n) ==
    /\ Len(r) <= n
    /\ Len(r) = Min(n, Len(table))
    /\ \A i \in DOMAIN r : \E k \in DOMAIN table : table[k] = r[i]
    /\ \A i \in DOMAIN r : \A j \in DOMAIN r : i < j => r[i].id > r[j].id
    /\ \A k \in DOMAIN table :
          (\A i \in DOMAIN r : r[i] # table[k]) =>
              \A i \in DOMAIN r : r[i].id > table[k].id

\* C3: for every limit n >= 0, get_reports(n) returns at most n reports, the
\* stored reports with the n largest ids (all of them when fewer are stored),
\* in strictly decreasing id order; get_chats(n) does the same for chats.
C3_RecentFirstBounded ==
    \A n \in 0..MaxLimit :
        /\ IsMostRecent(get_reports(n), reports, n)
        /\ IsMostRecent(get_chats(n), chats, n)

\* C3 witness: three reports stored, of which get_reports(2) returns the two
\* with the ids 3 and 2, and two chats of which get_chats(1) returns the newer
C3_Witness ==
    /\ Len(reports) = 3
    /\ Len(get_reports(2)) = 2
    /\ get_reports(2)[1].id = 3
    /\ get_reports(2)[2].id = 2
    /\ Len(chats) = 2
    /\ get_chats(1)[1].id = 2

----------------------------------------------------------------------------
(* The write endpoints on well-formed and malformed bodies, one request at  *)
(* a time                                                                   *)

\* ids handed out per table in one run of SpecWrite
MaxWriteIds == 2

GoodLat == PyFloat(284600)

GoodLng == PyFloat(770300)

WriteReportBodies ==
    {EmptyBody,
     Body(GoodLat, GoodLng, PyStr("Low"), PyStr("dark street"), Absent),
     Body(PyStr("28.46"), PyStr("77.03"), PyStr("High"), PyNone, Absent),
     Body(GoodLat, GoodLng, PyInt(3), PyInt(7), Absent),
     Body(PyStr("nan"), PyNaN, PyStr("Low"), Absent, Absent),
     Body(PyNone, GoodLng, PyStr("Low"), Absent, Absent),
     Body(PyStr("abc"), GoodLng, PyStr("Low"), Absent, Absent),
     Body(GoodLat, PyNone, PyStr("Low"), Absent, Absent)}

WriteSosBodies ==
    {EmptyBody,
     Body(PyNone, GoodLng, Absent, Absent, PyStr("big")),
     Body(GoodLat, PyStr("abc"), Absent, Absent, PyStr("big"))}

WriteShareBodies ==
    {EmptyBody,
     Body(PyNone, GoodLng, Absent, Absent, Absent),
     Body(GoodLat, PyStr("abc"), Absent, Absent, Absent)}

NextWrite ==
    \/ \E data \in WriteReportBodies : api_report(1, data)
    \/ \E data \in WriteSosBodies : api_sos(1, data)
    \/ \E data \in WriteShareBodies : api_share(1, data)
    \/ sqlite_sequence["reports"] < MaxWriteIds /\ save_report(1)
    \/ sqlite_sequence["shares"] < MaxWriteIds /\ save_share(1)
    \/ api_reports(1)
    \/ api_export_reports(1)

SpecWrite == Init /\ [][NextWrite]_vars

\* C4 as claimed: every report that save_report inserts is the first element
\* of the next get_reports(n), n >= 1, with exactly the lat, lng, severity
\* and note that were passed in.
C4_RoundTripAnyValue ==
    [][\A n \in 1..MaxLimit :
          save_report(1) =>
              LET r == get_reports(n)'
              IN /\ Len(r) >= 1
                 /\ r[1].lat = call[1].lat
                 /\ r[1].lng = call[1].lng
                 /\ r[1].severity = call[1].severity
                 /\ r[1].note = call[1].note]_vars

\* the values a report keeps as passed: coordinates that are numbers (not
\* NaN), severity and note that are text or null
KeptVerbatim(c) ==
    /\ c.lat.t = "float"
    /\ c.lng.t = "float"
    /\ c.severity.t \in {"str", "none"}
    /\ c.note.t \in {"str", "none"}

\* C4 as amended: every report that save_report inserts with lat and lng that
\* are not NaN and with severity and note that are text (or null) is the
\* first element of the next get_reports(n), n >= 1, made before any other
\* write, with exactly the lat, lng, severity and note that were passed in.
C4_RoundTrip ==
    [][\A n \in 1..MaxLimit :
          (save_report(1) /\ KeptVerbatim(call[1])) =>
              LET r == get_reports(n)'
              IN /\ Len(r) >= 1
                 /\ r[1].lat = call[1].lat
                 /\ r[1].lng = call[1].lng
                 /\ r[1].severity = call[1].severity
                 /\ r[1].note = call[1].note]_vars

\* C4 witness: a second report has just been saved by /api/report and is the
\* first element of get_reports with the values of its request
C4_Witness ==
    /\ Len(reports) = 2
    /\ resp = Response("api_report", 204, <<>>)
    /\ get_reports(1)[1].id = 2
    /\ get_reports(1)[1].lat = GoodLat
    /\ get_reports(1)[1].lng = GoodLng
    /\ get_reports(1)[1].severity = PyStr("Low")
    /\ get_reports(1)[1].note = PyStr("dark street")
    /\ reports[1].note # PyStr("dark street")

\* a coordinate that is missing or not a number: an absent key, JSON null, or
\* text that is no number
BadCoordinate(v) ==
    \/ v.t \in {"absent", "none"}
    \/ v.t = "str" /\ v.s \notin DOMAIN FloatLiterals

\* the coordinate the claim expects: the fallback for a bad one
ExpectedCoordinate(v, fallback) ==
    IF BadCoordinate(v) THEN PyFloat(fallback) ELSE float(v)

\* the request with body data is taken on by its handler (not rejected), with
\* the fallback in the place of each bad coordinate
AcceptedWithFallback(data, pc) ==
    /\ call'[1].pc = pc
    /\ call'[1].lat = ExpectedCoordinate(data.lat, DefaultLat)
    /\ call'[1].lng = ExpectedCoordinate(data.lng, DefaultLng)

\* C10 as claimed: on /api/report, /api/sos and /api/share a request whose
\* lat or lng is missing or not a number (absent key, null, non-numeric text)
\* is not rejected: it completes with 204 and persists exactly one record
\* whose bad coordinate is the fallback 28.4595 / 77.0266.
C10_BadCoordinateFallsBack ==
    [][/\ \A data \in WriteReportBodies :
             (api_report(1, data) /\ (BadCoordinate(data.lat) \/ BadCoordinate(data.lng)))
                 => AcceptedWithFallback(data, "save_report")
       /\ \A data \in WriteSosBodies :
             (api_sos(1, data) /\ (BadCoordinate(data.lat) \/ BadCoordinate(data.lng)))
                 => AcceptedWithFallback(data, "save_report")
       /\ \A data \in WriteShareBodies :
             (api_share(1, data) /\ (BadCoordinate(data.lat) \/ BadCoordinate(data.lng)))
                 => AcceptedWithFallback(data, "save_share")
       /\ save_report(1) =>
             /\ resp'.status = 204
             /\ Len(reports') = Len(reports) + 1
             /\ reports'[Len(reports')].lat = RealColumn(call[1].lat)
             /\ reports'[Len(reports')].lng = RealColumn(call[1].lng)
       /\ save_share(1) =>
             /\ resp'.status = 204
             /\ Len(shares') = Len(shares) + 1
             /\ shares'[Len(shares')].lat = RealColumn(call[1].lat)
             /\ shares'[Len(shares')].lng = RealColumn(call[1].lng)]_vars

----------------------------------------------------------------------------
(* The incident feed over a long log: /api/sos, /api/report, /api/reports   *)
(* and /api/clear_reports, with /api/share and /api/chat writes in between, *)
(* one request at a time                                                    *)

\* ids handed out in the reports table in one run of SpecFeed
MaxFeedIds == 52

\* in one run of SpecFeed the SOS requests come while fewer than SosWindow
\* reports have been inserted
SosWindow == 2

\* ids handed out in the shares and in the chats table in one run of SpecFeed
MaxFeedOtherIds == 1

FeedReportBodies == {Body(GoodLat, GoodLng, PyStr("Low"), PyStr("dark street"), Absent)}

FeedSosBodies == {Body(GoodLat, GoodLng, Absent, Absent, PyStr("big"))}

\* the report that POST /api/sos with type "big" stores
IsSosReport(row) ==
    /\ row.severity = PyStr("High")
    /\ row.note = PyStr("SOS triggered: big")

SosRows == {k \in DOMAIN reports : IsSosReport(reports[k])}

NextFeed ==
    \/ \E data \in FeedReportBodies : api_report(1, data)
    \/ \E data \in FeedSosBodies : sqlite_sequence["reports"] < SosWindow /\ api_sos(1, data)
    \/ \E data \in SpecShareBodies : api_share(1, data)
    \/ \E jq \in SpecChatTexts : api_chat(1, jq)
    \/ sqlite_sequence["reports"] < MaxFeedIds /\ save_report(1)
    \/ sqlite_sequence["shares"] < MaxFeedOtherIds /\ save_share(1)
    \/ sqlite_sequence["chats"] < MaxFeedOtherIds /\ save_chat(1)
    \/ api_clear_reports(1)
    \/ api_reports(1)

SpecFeed == Init /\ [][NextFeed]_vars

\* the reports inserted after row k that are still stored
NewerThan(k) == {j \in DOMAIN reports : reports[j].id > reports[k].id}

\* C5 as claimed: after POST /api/sos with type "big" has completed, every
\* later GET /api/reports with no clear_reports in between returns a list
\* that includes a report with severity "High" and note "SOS triggered: big",
\* whatever writes happen in between.  (The SOS report is in the table
\* exactly from the completion of /api/sos to the next clear_reports.)
C5_SosAlwaysInFeed ==
    (resp.op = "api_reports" /\ SosRows # {}) =>
        \E i \in DOMAIN resp.body : IsSosReport(resp.body[i])

\* C5 as amended: after POST /api/sos with type "big" has completed, every
\* later GET /api/reports with no clear_reports in between includes its
\* report (severity "High", note "SOS triggered: big") as long as fewer than
\* 50 reports have been inserted after it.
C5_SosInFeedWhileRecent ==
    resp.op = "api_reports" =>
        \A k \in SosRows :
            Cardinality(NewerThan(k)) < FeedLimit =>
                \E i \in DOMAIN resp.body : resp.body[i] = reports[k]

\* C5 witness: GET /api/reports returns the SOS report as the last of its 50
\* reports, 49 reports having been inserted after it
C5_Witness ==
    /\ resp.op = "api_reports"
    /\ Len(resp.body) = FeedLimit
    /\ IsSosReport(resp.body[FeedLimit])
    /\ \E k \in SosRows : Cardinality(NewerThan(k)) = FeedLimit - 1

----------------------------------------------------------------------------
(* The score engine and the route generator.  With hour h and random()      *)
(* equal to k / SampleDen the unrounded score base + noise is               *)
(*   0.62 - |22 - h| / 44 + (k / SampleDen - 0.5) * 0.28                    *)
(*     = (528 * SampleDen - 25 * |22 - h| * SampleDen + 308 * k)            *)
(*       / (ScoreDen * SampleDen),                                          *)
(* an exact rational; the returned score is in thousandths.  The floating   *)
(* point evaluation agrees with the rational one except within an ulp of a  *)
(* threshold or of a rounding tie.                                          *)

\* random() is k / SampleDen for k in 0..SampleDen - 1
SampleDen == 500

\* least common denominator of 0.62, 0.28 * 0.5 and 1 / 44.0
ScoreDen == 1100

Abs(x) == IF x < 0 THEN -x ELSE x

\* base + noise, as a numerator over ScoreDen * SampleDen
RawScore(h, k) == 528 * SampleDen - 25 * Abs(22 - h) * SampleDen + 308 * k

\* max(0.0, min(1.0, base + noise)), as a numerator over ScoreDen * SampleDen
ClampedScore(h, k) == Max(0, Min(ScoreDen * SampleDen, RawScore(h, k)))

\* round(x, 3) of x = num / den >= 0, in thousandths: the nearest, a tie to the even one
Round3(num, den) ==
    LET twice == 2000 * num
        down == twice \div (2 * den)
        rest == twice % (2 * den)
    IN IF rest > den THEN down + 1
       ELSE IF rest < den THEN down
       ELSE IF down % 2 = 0 THEN down ELSE down + 1

Point(lat, lng) == [lat |-> lat, lng |-> lng]

\* mock_predict at hour h with random() = k / SampleDen
mock_predict(lat, lng, h, k) ==
    LET score == ClampedScore(h, k)
        den == ScoreDen * SampleDen
        label == IF 4 * score > 3 * den THEN "Safe"
                 ELSE IF 20 * score > 9 * den THEN "Caution"
                 ELSE "Unsafe"
        color == IF 4 * score > 3 * den THEN "green"
                 ELSE IF 20 * score > 9 * den THEN "orange"
                 ELSE "red"
    IN [score |-> Round3(score, den),
        label |-> label,
        color |-> color,
        alt_route |-> <<Point(lat + 15, lng + 6), Point(lat + 31, lng + 11)>>,
        steps |-> <<"Head north for 200m", "Turn right at the park",
                    "Continue straight for 300m">>]

\* a deliberately broken mode dispatch: an unrecognised mode taken as driving
route_of_strict(lat, lng, mode) ==
    IF mode = PyStr("walking")
    THEN <<Point(lat, lng), Point(lat + 15, lng + 8), Point(lat + 30, lng + 15)>>
    ELSE IF mode = PyStr("safer")
    THEN <<Point(lat, lng), Point(lat + 20, lng + 10), Point(lat + 40, lng + 20)>>
    ELSE <<Point(lat, lng), Point(lat + 60, lng + 40), Point(lat + 120, lng + 90)>>

\* the if / elif / else of api_route
route_of(lat, lng, mode) ==
    IF mode = PyStr("driving")
    THEN <<Point(lat, lng), Point(lat + 60, lng + 40), Point(lat + 120, lng + 90)>>
    ELSE IF mode = PyStr("safer")
    THEN <<Point(lat, lng), Point(lat + 20, lng + 10), Point(lat + 40, lng + 20)>>
    ELSE <<Point(lat, lng), Point(lat + 15, lng + 8), Point(lat + 30, lng + 15)>>

\* GET /api/predict with the query arguments args, random() = k / SampleDen
api_predict(args, k) ==
    /\ LET lat == DictGet(args.lat, PyFloat(DefaultLat))
           lng == DictGet(args.lng, PyFloat(DefaultLng))
       IN IF FloatOk(lat) /\ FloatOk(lng)
          THEN resp' = Response("api_predict", 200,
                                mock_predict(float(lat).n, float(lng).n, hour, k))
          ELSE resp' = Response("api_predict", 500, <<>>)
    /\ UNCHANGED <<storeVars, call, req, hour, now>>

\* GET /api/route with the query arguments args, random() = k / SampleDen
api_route(args, k) ==
    /\ LET lat == DictGet(args.lat, PyFloat(DefaultLat))
           lng == DictGet(args.lng, PyFloat(DefaultLng))
           mode == DictGet(args.mode, PyStr("walking"))
       IN IF FloatOk(lat) /\ FloatOk(lng)
          THEN resp' = Response("api_route", 200,
                   [route |-> route_of(float(lat).n, float(lng).n, mode),
                    prediction |-> mock_predict(float(lat).n + 15, float(lng).n + 8, hour, k)])
          ELSE resp' = Response("api_route", 500, <<>>)
    /\ UNCHANGED <<storeVars, call, req, hour, now>>

QueryArgs(lat, lng, mode) == [lat |-> lat, lng |-> lng, mode |-> mode]

ScoreLats == {Absent, PyStr("28.46")}

ScoreLngs == {Absent, PyStr("77.03")}

ScoreModes == {Absent, PyStr("walking"), PyStr("driving"), PyStr("safer"), PyStr("unknownmode")}

ScoreRequests ==
    {[op |-> "api_predict", args |-> QueryArgs(lat, Absent, Absent), sample |-> k] :
        lat \in ScoreLats, k \in 0..(SampleDen - 1)}
    \cup
    {[op |-> "api_route", args |-> QueryArgs(q[1], q[2], q[3]), sample |-> k] :
        q \in {<<Absent, Absent, Absent>>} \cup ({PyStr("28.46")} \X ScoreLngs \X ScoreModes),
        k \in {0, SampleDen - 1}}

\* one request, drawn with the hour and the random sample, on an empty store
InitScore ==
    /\ init_db
    /\ call = [t \in Threads |-> Idle]
    /\ resp = NoResp
    /\ hour \in 0..23
    /\ now = 0
    /\ req \in ScoreRequests

\* the request is served once: no response has been given yet
NextScore ==
    \/ req.op = "api_predict" /\ resp = NoResp /\ api_predict(req.args, req.sample)
    \/ req.op = "api_route" /\ resp = NoResp /\ api_route(req.args, req.sample)

SpecScore == InitScore /\ [][NextScore]_vars

\* the label and colour that the threshold table gives a score in thousandths
TableLabel(score) ==
    IF score > 750 THEN "Safe" ELSE IF score > 450 THEN "Caution" ELSE "Unsafe"

TableColor(score) ==
    IF score > 750 THEN "green" ELSE IF score > 450 THEN "orange" ELSE "red"

\* C6: for every hour and random sample the assessment of mock_predict has
\* 0 <= score <= 1 and a label and colour that are the threshold function of
\* the returned 3-decimal score (> 0.75 Safe/green, > 0.45 Caution/orange,
\* else Unsafe/red), so a returned 0.75 is Caution and a returned 0.45 Unsafe.
C6_LabelMatchesReturnedScore ==
    (resp.op = "api_predict" /\ resp.status = 200) =>
        /\ 0 <= resp.body.score /\ resp.body.score <= 1000
        /\ resp.body.label = TableLabel(resp.body.score)
        /\ resp.body.color = TableColor(resp.body.score)

\* C8: for every coordinate and mode the prediction of GET /api/route is the
\* assessment at the second waypoint of the route of the same response: its
\* alternate route is that waypoint plus (0.0015, 0.0006) and (0.0031, 0.0011).
C8_PredictionAtSecondWaypoint ==
    (resp.op = "api_route" /\ resp.status = 200) =>
        LET w == resp.body.route[2]
        IN resp.body.prediction.alt_route =
               <<Point(w.lat + 15, w.lng + 6), Point(w.lat + 31, w.lng + 11)>>

\* the coordinate that a request's query arguments give
ArgLat(args) == float(DictGet(args.lat, PyFloat(DefaultLat))).n

ArgLng(args) == float(DictGet(args.lng, PyFloat(DefaultLng))).n

\* C9: GET /api/route with a mode other than "driving" and "safer" (also an
\* unrecognised one, or none) returns without error the 3-point route of
\* mode=walking: the input coordinate and two waypoints at fixed offsets.
C9_UnknownModeIsWalking ==
    (/\ req.op = "api_route" /\ resp.op = "api_route"
     /\ req.args.mode \notin {PyStr("driving"), PyStr("safer")}) =>
        /\ resp.status = 200
        /\ Len(resp.body.route) = 3
        /\ resp.body.route[1] = Point(ArgLat(req.args), ArgLng(req.args))
        /\ resp.body.route =
               route_of(ArgLat(req.args), ArgLng(req.args), PyStr("walking"))

\* C9 witness: mode=unknownmode at 28.46, 77.03 has been answered with the
\* walking route
C9_Witness ==
    /\ req.op = "api_route" /\ resp.op = "api_route"
    /\ req.args.mode = PyStr("unknownmode")
    /\ resp.status = 200
    /\ resp.body.route =
           <<Point(284600, 770300), Point(284615, 770308), Point(284630, 770315)>>

----------------------------------------------------------------------------
(* The chat assistant: one POST /api/chat, its text drawn from ChatTexts *)

ChatWords ==
    {
     <<"s", "a", "f", "e">>,
     <<"d", "a", "n", "g", "e", "r">>,
     <<"r", "o", "u", "t", "e">>,
     <<"n", "a", "v", "i", "g", "a", "t", "e">>,
     <<"s", "h", "a", "r", "e">>,
     <<"c", "o", "n", "t", "a", "c", "t", "s">>,
     <<"h", "e", "l", "p">>,
     <<"p", "a", "n", "i", "c">>,
     <<"u", "n", "s", "a", "f", "e">>,
     <<"S", "A", "F", "E">>,
     <<"H", "e", "l", "p">>,
     <<"h", "e", "l", "l", "o">>,
     <<"m", "e">>
    }

TextHelpMeFindASafeRoute ==
    <<"h", "e", "l", "p", " ", "m", "e", " ", "f", "i", "n", "d", " ", "a",
      " ", "s", "a", "f", "e", " ", "r", "o", "u", "t", "e">>

TextIsItSafeToShareMyLocation ==
    <<"I", "s", " ", "i", "t", " ", "S", "A", "F", "E", " ", "t", "o", " ",
      "s", "h", "a", "r", "e", " ", "m", "y", " ", "l", "o", "c", "a", "t",
      "i", "o", "n">>

TextPaddedPanic ==
    <<" ", " ", "P", "a", "n", "i", "c", " ", "\n">>

\* the words alone, every two of them with a space between, and the phrases
ChatTexts ==
    ChatWords
    \cup {w[1] \o <<" ">> \o w[2] : w \in ChatWords \X ChatWords}
    \cup {TextHelpMeFindASafeRoute, TextIsItSafeToShareMyLocation, TextPaddedPanic,
          <<>>, <<" ", " ">>}

InitChat ==
    /\ init_db
    /\ call = [t \in Threads |-> Idle]
    /\ resp = NoResp
    /\ hour = 0
    /\ now = 0
    /\ req \in {[op |-> "api_chat", q |-> jq] :
                  jq \in {JAbsent, JNull} \cup {JText(x) : x \in ChatTexts}}

\* the request is served once: no response has been given yet
NextChat ==
    \/ resp = NoResp /\ api_chat(1, req.q)
    \/ save_chat(1)

SpecChat == InitChat /\ [][NextChat]_vars

\* the rule list of the chat assistant, in its order
ChatRules ==
    <<[keywords |-> {kw_safe, kw_danger}, answer |-> AnswerSafety],
      [keywords |-> {kw_route, kw_navigate}, answer |-> AnswerRoute],
      [keywords |-> {kw_share, kw_contacts}, answer |-> AnswerShare],
      [keywords |-> {kw_help, kw_panic}, answer |-> AnswerSos]>>

\* the rules of which a keyword occurs in the text, whatever its case
MatchingRules(text) ==
    {i \in DOMAIN ChatRules :
        \E kw \in ChatRules[i].keywords :
            \E j \in 0..(Len(text) - Len(kw)) :
                \A c \in 1..Len(kw) :
                    \/ text[j + c] = kw[c]
                    \/ \E u \in DOMAIN UpperCase :
                          text[j + c] = UpperCase[u] /\ kw[c] = LowerCase[u]}

\* the answer of the lowest-numbered matching rule, else the fallback
FirstMatchAnswer(text) ==
    IF MatchingRules(text) = {} THEN AnswerFallback
    ELSE ChatRules[CHOOSE i \in MatchingRules(text) :
                      \A k \in MatchingRules(text) : i <= k].answer

\* the text of the request: the value of q when it is text, else empty
RequestText == IF req.q.t = "str" THEN req.q.chars ELSE <<>>

\* C7: the answer of POST /api/chat is that of the first rule, in the order
\* safety, route, sharing, SOS, of which a keyword occurs in the text
\* whatever its case, else the fallback; "help me find a safe route" and
\* "is it safe to share my location" get the safety answer of rule 1.
C7_FirstMatchWins ==
    (req.op = "api_chat" /\ resp.op = "api_chat") =>
        /\ resp.status = 200
        /\ resp.body.a = FirstMatchAnswer(RequestText)
        /\ RequestText = TextHelpMeFindASafeRoute => resp.body.a = AnswerSafety
        /\ RequestText = TextIsItSafeToShareMyLocation => resp.body.a = AnswerSafety
        /\ chats[Len(chats)].a = resp.body.a

\* C7 witness: "help me find a safe route", which has keywords of the rules
\* 1, 2 and 4, has been answered with the safety answer
C7_Witness ==
    /\ req.op = "api_chat" /\ resp.op = "api_chat"
    /\ RequestText = TextHelpMeFindASafeRoute
    /\ MatchingRules(RequestText) = {1, 2, 4}
    /\ resp.body.a = AnswerSafety
    /\ Len(chats) = 1

----------------------------------------------------------------------------
(* Empty chat text: the page's send button and the server.  A run serves    *)
(* one chat text, either typed into chatInput and sent with the sendChat    *)
(* button, or posted to /api/chat by a client of its own.                   *)

\* String.prototype.trim of the page script, on the characters of the model
trim(value) == strip(value)

\* a deliberately broken click handler: the text is sent whatever it is
sendChat_unguarded(t, value) ==
    api_chat(t, JText(trim(value)))

\* the click handler of the sendChat button; value is the text of chatInput.
\* An empty q returns at once, any other is posted as {q} and reaches api_chat
sendChat(t, value) ==
    LET q == trim(value)
    IN IF q = <<>>
       THEN UNCHANGED vars
       ELSE api_chat(t, JText(q))

BlankTexts == {<<>>, <<" ">>, <<" ", " ">>, <<"\t", "\n">>, <<"\r", " ">>}

SendTexts == ChatTexts \cup BlankTexts

InitSend ==
    /\ init_db
    /\ call = [t \in Threads |-> Idle]
    /\ resp = NoResp
    /\ hour = 0
    /\ now = 0
    /\ req \in {[op |-> "sendChat", q |-> JText(x)] : x \in SendTexts}
          \cup {[op |-> "api_chat", q |-> jq] :
                  jq \in {JAbsent, JNull} \cup {JText(x) : x \in SendTexts}}

\* the text is sent once: by the button, or as a POST of the client's own
NextSend ==
    \/ req.op = "sendChat" /\ resp = NoResp /\ sendChat(1, req.q.chars)
    \/ req.op = "api_chat" /\ resp = NoResp /\ api_chat(1, req.q)
    \/ save_chat(1)

SpecSend == InitSend /\ [][NextSend]_vars

IsBlank(text) == \A i \in DOMAIN text : text[i] \in Whitespace

\* the q of the request is missing, null, empty or whitespace only
BlankRequest == req.q.t # "str" \/ IsBlank(req.q.chars)

\* C11 as stated: a POST /api/chat whose q is missing, empty or whitespace
\* only is rejected at the HTTP boundary: no canned answer is computed for
\* it, no row is added to the chats table and it is not answered 200.
C11_EmptyChatRejected ==
    (req.op = "api_chat" /\ BlankRequest) =>
        /\ call[1].pc # "save_chat"
        /\ chats = <<>>
        /\ resp.status # 200

\* C11 amended: a blank chat text is kept from the classifier by the send
\* button alone, which posts nothing for it, so nothing is computed or
\* stored; a POST /api/chat whose q is missing, null, empty or whitespace
\* only is not rejected: it is answered 200 with the fallback answer and one
\* row with the empty question and that answer is added to the chats table.
C11_EmptyChatStoppedByButtonOnly ==
    /\ (req.op = "sendChat" /\ BlankRequest) =>
          /\ call[1] = Idle
          /\ chats = <<>>
          /\ resp = NoResp
    /\ (req.op = "api_chat" /\ BlankRequest) =>
          /\ call[1].pc = "save_chat" =>
                call[1].q = <<>> /\ call[1].a = AnswerFallback
          /\ resp.op = "api_chat" =>
                /\ resp.status = 200
                /\ resp.body.a = AnswerFallback
                /\ Len(chats) = 1
                /\ chats[1].q = <<>> /\ chats[1].a = AnswerFallback

\* C11 witness: a POST /api/chat with the q "  " has been answered 200 with
\* the fallback answer and its row is in the chats table
C11_Witness ==
    /\ req = [op |-> "api_chat", q |-> JText(<<" ", " ">>)]
    /\ resp.op = "api_chat" /\ resp.status = 200
    /\ resp.body.a = AnswerFallback
    /\ Len(chats) = 1 /\ chats[1].q = <<>>

----------------------------------------------------------------------------
(* Ids and timestamps of reports saved by concurrent requests, under a      *)
(* clock that never goes back.                                              *)

MaxClock == 2

MaxClockIds == 2

\* time passes on the server
Tick ==
    /\ now < MaxClock
    /\ now' = now + 1
    /\ UNCHANGED <<storeVars, call, resp, req, hour>>

NextClock ==
    \/ Tick
    \/ \E t \in Threads :
          \/ \E data \in SpecReportBodies : api_report(t, data)
          \/ sqlite_sequence["reports"] < MaxClockIds /\ save_report(t)
          \/ api_reports(t)

SpecClock == Init /\ [][NextClock]_vars

\* C12: in every reachable store state, also after interleaved concurrent
\* save_report calls, of any two stored reports the one with the smaller id
\* has a created_at no later than the other, so the list of get_reports,
\* most recent first by id, is most recent first by created_at as well.
C12_IdOrderIsTimeOrder ==
    /\ \A i, j \in DOMAIN reports :
          reports[i].id < reports[j].id => reports[i].created_at <= reports[j].created_at
    /\ LET rows == get_reports(FeedLimit)
       IN \A i, j \in DOMAIN rows :
             i < j => rows[i].created_at >= rows[j].created_at

=============================================================================
